---- MODULE Spec2Model ----
(***************************************************************************)
(* A model of StorageService (src/src/services/storage.ts): the quote and  *)
(* category store with its two backends, the Neon SQL database (this.sql)  *)
(* and the browser's localStorage.                                         *)
(*                                                                         *)
(* Conventions                                                             *)
(*  - Text (title, content, author, comment, search term) is a sequence of *)
(*    one-character strings, so that toLowerCase, includes and ILIKE can   *)
(*    be computed.                                                         *)
(*  - Category names are strings.  The module is ASCII only:               *)
(*    UNCATEGORIZED stands for the sentinel category literal of            *)
(*    storage.ts line 74 and ALL for the "all" marker of line 120; the     *)
(*    other names stand for the default and the user's category names.     *)
(*  - confidence is an integer number of hundredths (0.7 is 70).           *)
(*  - Times are integer milliseconds; an ISO string made by toISOString    *)
(*    and read back by new Date(...).getTime() is the same millisecond.    *)
(*  - A JavaScript object is a function on the set of its keys, so an      *)
(*    absent key (a partial update, a snapshot without confidence) is a    *)
(*    key outside DOMAIN.  An absent optional string argument is "" or     *)
(*    <<>> (both falsy in JavaScript, like undefined).                     *)
(***************************************************************************)
EXTENDS Integers, Sequences, FiniteSets, TLC

VARIABLES
    sql,            \* TRUE iff this.sql is a Neon client (remote backend active)
    db,             \* the remote database: tables and id sequences
    localStorage,   \* the browser store: a function on the keys that are set
    now,            \* the clock (Date.now(), new Date())
    calls,          \* the mutating calls made so far
    ret             \* what the last call did and returned

vars == <<sql, db, localStorage, now, calls, ret>>

-----------------------------------------------------------------------------
(* Literals of the source *)

UNCATEGORIZED == "uncategorized"
ALL == "all"
READING == "reading"
GOLDEN == "golden"
INSPIRATION == "inspiration"
ESSAY == "essay"
GHOST == "ghost"

\* The four default categories of getLocalCategories and of initDb.
defaults ==
    << [id |-> 1, name |-> READING],
       [id |-> 2, name |-> GOLDEN],
       [id |-> 3, name |-> INSPIRATION],
       [id |-> 4, name |-> UNCATEGORIZED] >>

InitialConfidence == 70
BoostStep == 10
DecayStep == 5
MaxConfidence == 100
MsPerDay == 86400000
DecayDays == 7

-----------------------------------------------------------------------------
(* Bounds of the model *)

MaxQuotes == 2          \* quotes a store holds at most
MaxAddedCategories == 1 \* categories added on top of the defaults
MaxDrift == 1           \* milliseconds the clock runs past T0 and past T0 + 7 days
MaxStored == 2          \* quotes in a store of the query specification
MaxCalls == 3           \* mutating calls in one behaviour
MaxSkew == 1            \* milliseconds the database clock is ahead of the caller's

\* The first clock reading.  Date.now() is far above the default ids 1..4.
T0 == 1000

-----------------------------------------------------------------------------
(* Sequences and objects *)

Range(s) == {s[i] : i \in DOMAIN s}

\* { ...a, ...b }
Spread(a, b) ==
    [f \in (DOMAIN a) \cup (DOMAIN b) |-> IF f \in DOMAIN b THEN b[f] ELSE a[f]]

\* { ...q, [f]: v }
With(q, f, v) == [g \in (DOMAIN q) \cup {f} |-> IF g = f THEN v ELSE q[g]]

Has(o, f) == f \in DOMAIN o

\* findIndex(x => x.id === id): the first index whose element has the id,
\* 0 for -1.
findIndex(s, id) ==
    IF \E i \in DOMAIN s : s[i].id = id
    THEN CHOOSE i \in DOMAIN s : s[i].id = id /\ \A j \in 1..(i - 1) : s[j].id # id
    ELSE 0

\* JSON.stringify / JSON.parse: the stored text carries the value.
JSONstringify(v) == [text |-> v]
JSONparse(s) == s.text

-----------------------------------------------------------------------------
(* Text *)

\* String.prototype.toLowerCase on one character.
toLowerCaseChar(c) ==
    CASE c = "Q" -> "q"
      [] c = "A" -> "a"
      [] OTHER -> c

toLowerCase(t) == [i \in DOMAIN t |-> toLowerCaseChar(t[i])]

\* String.prototype.includes: s occurs in t as a contiguous run.
includes(t, s) ==
    \E i \in 0..(Len(t) - Len(s)) : SubSeq(t, i + 1, i + Len(s)) = s

\* PostgreSQL's  t ILIKE p : "%" matches any run, "_" any one character,
\* every other character itself, without regard to case.
RECURSIVE ILIKE(_, _)
ILIKE(t, p) ==
    IF p = <<>> THEN t = <<>>
    ELSE IF Head(p) = "%"
         THEN ILIKE(t, Tail(p)) \/ (t # <<>> /\ ILIKE(Tail(t), p))
    ELSE IF Head(p) = "_"
         THEN t # <<>> /\ ILIKE(Tail(t), Tail(p))
    ELSE /\ t # <<>>
         /\ toLowerCaseChar(Head(t)) = toLowerCaseChar(Head(p))
         /\ ILIKE(Tail(t), Tail(p))

-----------------------------------------------------------------------------
(* Sorting *)

\* new Date(iso).getTime()
getTime(t) == t

\* A comparator that leaves confidence out: pinned first, then newest first.
compareQuotesPlain(a, b) ==
    IF a.is_pinned # b.is_pinned THEN (IF a.is_pinned THEN -1 ELSE 1)
    ELSE getTime(b.created_at) - getTime(a.created_at)

\* The comparator of getLocalQuotes.  A difference with an undefined
\* confidence is NaN, which sort takes as 0.
compareQuotes(a, b) ==
    IF a.is_pinned # b.is_pinned THEN (IF a.is_pinned THEN -1 ELSE 1)
    ELSE IF Has(a, "confidence") /\ Has(b, "confidence") /\ a.confidence # b.confidence
         THEN b.confidence - a.confidence
    ELSE IF Has(a, "confidence") # Has(b, "confidence") THEN 0
    ELSE getTime(b.created_at) - getTime(a.created_at)

\* Array.prototype.sort(compareQuotes): a stable sort.  x goes before the
\* first element it compares below; elements that compare equal keep their
\* order.
RECURSIVE InsertInto(_, _)
InsertInto(sorted, x) ==
    IF sorted = <<>> THEN <<x>>
    ELSE IF compareQuotes(x, Head(sorted)) < 0 THEN <<x>> \o sorted
    ELSE <<Head(sorted)>> \o InsertInto(Tail(sorted), x)

RECURSIVE sort(_)
sort(s) ==
    IF s = <<>> THEN <<>>
    ELSE InsertInto(sort(SubSeq(s, 1, Len(s) - 1)), s[Len(s)])

\* All the orders a set of rows can come back in.
Orderings(S) ==
    {s \in [1..Cardinality(S) -> S] : \A i, j \in DOMAIN s : i # j => s[i] # s[j]}

\* ORDER BY is_pinned DESC, confidence DESC, created_at DESC: a before b is
\* allowed.  Rows equal on all three keys come back in any order.
orderByOk(a, b) ==
    \/ a.is_pinned /\ ~b.is_pinned
    \/ a.is_pinned = b.is_pinned /\ a.confidence > b.confidence
    \/ a.is_pinned = b.is_pinned /\ a.confidence = b.confidence
         /\ a.created_at >= b.created_at

OrderBy(S) ==
    {s \in Orderings(S) : \A i \in 1..(Len(s) - 1) : orderByOk(s[i], s[i + 1])}

-----------------------------------------------------------------------------
(* The local backend: localStorage *)

\* getLocalCategories: an unset key writes the defaults and returns them.
getLocalCategories(ls) ==
    IF ~Has(ls, "categories")
    THEN [ls |-> With(ls, "categories", JSONstringify(defaults)), val |-> defaults]
    ELSE [ls |-> ls, val |-> JSONparse(ls.categories)]

\* The category test of getLocalQuotes and of getQuotes.
categoryApplies(category) == category # "" /\ category # ALL

\* The search test of getLocalQuotes.
searchMatchesLocal(q, search) ==
    LET s == toLowerCase(search)
    IN  \/ includes(toLowerCase(q.title), s)
        \/ includes(toLowerCase(q.content), s)
        \/ includes(toLowerCase(q.author), s)

getLocalQuotes(ls, category, search) ==
    LET quotes == IF Has(ls, "quotes") THEN JSONparse(ls.quotes) ELSE <<>>
        InCategory(q) == q.category = category
        Matches(q) == searchMatchesLocal(q, search)
        byCategory == IF categoryApplies(category)
                      THEN SelectSeq(quotes, InCategory) ELSE quotes
        bySearch == IF search # <<>>
                    THEN SelectSeq(byCategory, Matches) ELSE byCategory
    IN  sort(bySearch)

\* addCategory, local branch.
addCategoryLocal(ls, name, t) ==
    LET got == getLocalCategories(ls)
        newCat == [id |-> t, name |-> name]
        categories == Append(got.val, newCat)
    IN  [ls |-> With(got.ls, "categories", JSONstringify(categories)),
         ok |-> TRUE, val |-> newCat]

\* deleteCategory, local branch.
deleteCategoryLocal(ls, id) ==
    LET got == getLocalCategories(ls)
        Keep(c) == c.id # id
        idx == findIndex(got.val, id)
    IN  IF idx # 0
        THEN LET catToDelete == got.val[idx]
                 categories == SelectSeq(got.val, Keep)
                 ls1 == With(got.ls, "categories", JSONstringify(categories))
                 sorted == getLocalQuotes(ls1, "", <<>>)
                 quotes == [i \in DOMAIN sorted |->
                               IF sorted[i].category = catToDelete.name
                               THEN With(sorted[i], "category", UNCATEGORIZED)
                               ELSE sorted[i]]
             IN  [ls |-> With(ls1, "quotes", JSONstringify(quotes)), ok |-> TRUE]
        ELSE [ls |-> got.ls, ok |-> TRUE]

\* addQuote, local branch.
addQuoteLocal(ls, quote, t) ==
    LET quotes == getLocalQuotes(ls, "", <<>>)
        newQuote == Spread(quote, [id |-> t, confidence |-> InitialConfidence,
                                   last_accessed_at |-> t, created_at |-> t])
    IN  [ls |-> With(ls, "quotes", JSONstringify(Append(quotes, newQuote))),
         ok |-> TRUE, val |-> newQuote]

\* updateQuote, local branch.
updateQuoteLocal(ls, id, quote) ==
    LET quotes == getLocalQuotes(ls, "", <<>>)
        idx == findIndex(quotes, id)
    IN  IF idx # 0
        THEN LET merged == Spread(quotes[idx], quote)
                 quotes1 == [quotes EXCEPT ![idx] = merged]
             IN  [ls |-> With(ls, "quotes", JSONstringify(quotes1)),
                  ok |-> TRUE, val |-> merged]
        ELSE [ls |-> ls, ok |-> FALSE, val |-> "Not found"]

\* A deleteQuote that drops the newest quote, whatever the id.
deleteQuoteLocalNewest(ls, id) ==
    LET quotes == getLocalQuotes(ls, "", <<>>)
    IN  [ls |-> With(ls, "quotes",
                     JSONstringify(SubSeq(quotes, 1, Len(quotes) - 1))),
         ok |-> TRUE]

\* deleteQuote, local branch.
deleteQuoteLocal(ls, id) ==
    LET Keep(q) == q.id # id
        quotes == SelectSeq(getLocalQuotes(ls, "", <<>>), Keep)
    IN  [ls |-> With(ls, "quotes", JSONstringify(quotes)), ok |-> TRUE]

\* Math.min / Math.max
Min(a, b) == IF a < b THEN a ELSE b
Max(a, b) == IF a > b THEN a ELSE b

\* boostKnowledge, local branch.
boostKnowledgeLocal(ls, id, t) ==
    LET quotes == getLocalQuotes(ls, "", <<>>)
        idx == findIndex(quotes, id)
    IN  IF idx # 0
        THEN LET q1 == With(quotes[idx], "confidence",
                            Min(MaxConfidence, quotes[idx].confidence + BoostStep))
                 q2 == With(q1, "last_accessed_at", t)
             IN  [ls |-> With(ls, "quotes",
                              JSONstringify([quotes EXCEPT ![idx] = q2])),
                  ok |-> TRUE]
        ELSE [ls |-> ls, ok |-> TRUE]

\* The test with >= 7 in place of > 7: a quote decays on its seventh day.
isStaleOnTheDay(last_accessed_at, t) ==
    (t - getTime(last_accessed_at)) >= DecayDays * MsPerDay

\* The test of decayKnowledge: more than seven days since the last access.
isStale(last_accessed_at, t) ==
    (t - getTime(last_accessed_at)) > DecayDays * MsPerDay

\* decayKnowledge that also records the sweep as an access.
decayKnowledgeLocalTouching(ls, t) ==
    LET quotes == getLocalQuotes(ls, "", <<>>)
        updatedQuotes ==
            [i \in DOMAIN quotes |->
                IF isStale(quotes[i].last_accessed_at, t)
                THEN With(With(quotes[i], "confidence", Max(0, quotes[i].confidence - DecayStep)),
                          "last_accessed_at", t)
                ELSE quotes[i]]
    IN  [ls |-> With(ls, "quotes", JSONstringify(updatedQuotes)), ok |-> TRUE]

\* decayKnowledge, local branch.
decayKnowledgeLocal(ls, t) ==
    LET quotes == getLocalQuotes(ls, "", <<>>)
        updatedQuotes ==
            [i \in DOMAIN quotes |->
                IF isStale(quotes[i].last_accessed_at, t)
                THEN With(quotes[i], "confidence", Max(0, quotes[i].confidence - DecayStep))
                ELSE quotes[i]]
    IN  [ls |-> With(ls, "quotes", JSONstringify(updatedQuotes)), ok |-> TRUE]

\* importData, local branch (after the format test).
importDataLocal(ls, data) ==
    LET ls1 == With(ls, "quotes", JSONstringify(data.quotes))
    IN  [ls |-> With(ls1, "categories", JSONstringify(data.categories)), ok |-> TRUE]

-----------------------------------------------------------------------------
(* The remote backend: the Neon database.  Every statement is sent on its  *)
(* own and may throw; `fail` is the number of the statement of the call    *)
(* that throws (0: none).  A statement that throws changes nothing.        *)

\* The collation of ORDER BY name ASC over the names of the model.
NameOrder == <<"", ESSAY, GHOST, GOLDEN, INSPIRATION, READING, UNCATEGORIZED>>

nameRank(n) == CHOOSE i \in DOMAIN NameOrder : NameOrder[i] = n

\* SELECT * FROM categories ORDER BY name ASC.  name is UNIQUE, so the
\* order is one: the first row is the one no other row's name precedes.
RECURSIVE orderByName(_)
orderByName(rows) ==
    IF rows = {} THEN <<>>
    ELSE LET first == CHOOSE c \in rows :
                         \A o \in rows : nameRank(c.name) <= nameRank(o.name)
         IN  <<first>> \o orderByName(rows \ {first})

selectCategories(d) == orderByName(d.categories)

\* `%${search}%`
likePattern(search) == <<"%">> \o search \o <<"%">>

\* (title ILIKE s OR content ILIKE s OR author ILIKE s OR comment ILIKE s)
searchMatchesRemote(q, search) ==
    LET s == likePattern(search)
    IN  \/ ILIKE(q.title, s)
        \/ ILIKE(q.content, s)
        \/ ILIKE(q.author, s)
        \/ ILIKE(q.comment, s)

\* The WHERE clause of the branch getQuotes takes.
whereQuotes(q, category, search) ==
    IF categoryApplies(category) /\ search # <<>>
    THEN q.category = category /\ searchMatchesRemote(q, search)
    ELSE IF categoryApplies(category) THEN q.category = category
    ELSE IF search # <<>> THEN searchMatchesRemote(q, search)
    ELSE TRUE

\* SELECT * FROM quotes WHERE ... ORDER BY is_pinned DESC, confidence DESC,
\* created_at DESC: every order the database may return.
selectQuotes(d, category, search) ==
    OrderBy({q \in d.quotes : whereQuotes(q, category, search)})

Thrown == [ok |-> FALSE, val |-> "error"]

\* addCategory, remote branch: INSERT INTO categories (name) ... RETURNING *
\* (id SERIAL PRIMARY KEY, name TEXT NOT NULL UNIQUE).
addCategoryRemote(d, name, fail) ==
    LET id == d.categories_id_seq
        d1 == [d EXCEPT !.categories_id_seq = id + 1]
        row == [id |-> id, name |-> name]
    IN  IF fail = 1 THEN [db |-> d] @@ Thrown
        ELSE IF \E c \in d.categories : c.name = name \/ c.id = id
             THEN [db |-> d1] @@ Thrown
        ELSE [db |-> [d1 EXCEPT !.categories = @ \cup {row}],
              ok |-> TRUE, val |-> row]

\* UPDATE quotes SET category = <sentinel> WHERE category = name
reassignQuotes(quotes, name) ==
    {IF q.category = name THEN [q EXCEPT !.category = UNCATEGORIZED] ELSE q :
        q \in quotes}

\* deleteCategory, remote branch: SELECT, then UPDATE and DELETE.
deleteCategoryRemote(d, id, fail) ==
    LET category == {c \in d.categories : c.id = id}
    IN  IF fail = 1 THEN [db |-> d] @@ Thrown
        ELSE IF category = {} THEN [db |-> d, ok |-> TRUE]
        ELSE LET categoryName == (CHOOSE c \in category : TRUE).name
                 d1 == [d EXCEPT !.quotes = reassignQuotes(@, categoryName)]
                 d2 == [d1 EXCEPT !.categories = @ \ category]
             IN  IF fail = 2 THEN [db |-> d] @@ Thrown
                 ELSE IF fail = 3 THEN [db |-> d1] @@ Thrown
                 ELSE [db |-> d2, ok |-> TRUE]

\* addQuote, remote branch: INSERT INTO quotes (...) RETURNING *.  id comes
\* from the sequence; last_accessed_at is the caller's clock reading t and
\* created_at the column default CURRENT_TIMESTAMP, the database's reading.
addQuoteRemote(d, quote, t, created, fail) ==
    LET id == d.quotes_id_seq
        d1 == [d EXCEPT !.quotes_id_seq = id + 1]
        row == [id |-> id, title |-> quote.title, content |-> quote.content,
                author |-> quote.author, comment |-> quote.comment,
                category |-> quote.category, is_pinned |-> quote.is_pinned,
                confidence |-> InitialConfidence, last_accessed_at |-> t,
                created_at |-> created]
    IN  IF fail = 1 THEN [db |-> d] @@ Thrown
        ELSE IF \E q \in d.quotes : q.id = id THEN [db |-> d1] @@ Thrown
        ELSE [db |-> [d1 EXCEPT !.quotes = @ \cup {row}], ok |-> TRUE, val |-> row]

\* The columns the UPDATE of updateQuote sets.
UpdatedColumns ==
    {"title", "content", "author", "comment", "category", "is_pinned",
     "confidence", "last_accessed_at"}

\* updateQuote, remote branch: SELECT, merge, UPDATE ... RETURNING *.
updateQuoteRemote(d, id, quote, fail) ==
    LET found == {q \in d.quotes : q.id = id}
    IN  IF fail = 1 \/ fail = 2 THEN [db |-> d] @@ Thrown
        ELSE IF found = {} THEN [db |-> d, ok |-> TRUE, val |-> "undefined"]
        ELSE LET existing == CHOOSE q \in found : TRUE
                 updated == Spread(existing, quote)
                 row == [f \in DOMAIN existing |->
                            IF f \in UpdatedColumns THEN updated[f] ELSE existing[f]]
             IN  [db |-> [d EXCEPT !.quotes = (@ \ found) \cup {row}],
                  ok |-> TRUE, val |-> row]

\* deleteQuote, remote branch.
deleteQuoteRemote(d, id, fail) ==
    IF fail = 1 THEN [db |-> d] @@ Thrown
    ELSE [db |-> [d EXCEPT !.quotes = {q \in @ : q.id # id}], ok |-> TRUE]

\* boostKnowledge whose UPDATE has no WHERE clause.
boostKnowledgeRemoteEvery(d, id, t, fail) ==
    LET Boost(q) == [q EXCEPT !.confidence = Min(MaxConfidence, @ + BoostStep),
                              !.last_accessed_at = t]
    IN  IF fail = 1 THEN [db |-> d] @@ Thrown
        ELSE [db |-> [d EXCEPT !.quotes = {Boost(q) : q \in @}], ok |-> TRUE]

\* boostKnowledge, remote branch.
boostKnowledgeRemote(d, id, t, fail) ==
    LET Boost(q) == IF q.id = id
                    THEN [q EXCEPT !.confidence = Min(MaxConfidence, @ + BoostStep),
                                   !.last_accessed_at = t]
                    ELSE q
    IN  IF fail = 1 THEN [db |-> d] @@ Thrown
        ELSE [db |-> [d EXCEPT !.quotes = {Boost(q) : q \in @}], ok |-> TRUE]

\* decayKnowledge, remote branch.
decayKnowledgeRemote(d, t, fail) ==
    LET Decay(q) == IF isStale(q.last_accessed_at, t)
                    THEN [q EXCEPT !.confidence = Max(0, @ - DecayStep)]
                    ELSE q
    IN  IF fail = 1 THEN [db |-> d] @@ Thrown
        ELSE [db |-> [d EXCEPT !.quotes = {Decay(q) : q \in @}], ok |-> TRUE]

\* q.confidence || 0.7  and  q.last_accessed_at || q.created_at
importedQuoteRow(q) ==
    [id |-> q.id, title |-> q.title, content |-> q.content, author |-> q.author,
     comment |-> q.comment, category |-> q.category, is_pinned |-> q.is_pinned,
     confidence |-> IF Has(q, "confidence") /\ q.confidence # 0
                    THEN q.confidence ELSE InitialConfidence,
     last_accessed_at |-> IF Has(q, "last_accessed_at")
                          THEN q.last_accessed_at ELSE q.created_at,
     created_at |-> q.created_at]

\* INSERT INTO categories (id, name) ... ON CONFLICT (id) DO UPDATE SET name
upsertCategory(d, cat) ==
    IF \E c \in d.categories : c.id # cat.id /\ c.name = cat.name
    THEN [db |-> d] @@ Thrown
    ELSE [db |-> [d EXCEPT !.categories =
                     {c \in @ : c.id # cat.id} \cup {[id |-> cat.id, name |-> cat.name]}],
          ok |-> TRUE]

\* INSERT INTO quotes (...) ... ON CONFLICT (id) DO UPDATE SET every column
\* but created_at.
upsertQuote(d, q) ==
    LET row == importedQuoteRow(q)
        old == {o \in d.quotes : o.id = q.id}
        kept == IF old = {} THEN row
                ELSE [row EXCEPT !.created_at = (CHOOSE o \in old : TRUE).created_at]
    IN  [db |-> [d EXCEPT !.quotes = (@ \ old) \cup {kept}], ok |-> TRUE]

\* The statements of importData's remote branch, in order.
importStatements(data) ==
    <<[do |-> "deleteQuotes"], [do |-> "deleteCategories"]>>
    \o [i \in DOMAIN data.categories |-> [do |-> "category", row |-> data.categories[i]]]
    \o [i \in DOMAIN data.quotes |-> [do |-> "quote", row |-> data.quotes[i]]]

runStatement(d, st) ==
    CASE st.do = "deleteQuotes" -> [db |-> [d EXCEPT !.quotes = {}], ok |-> TRUE]
      [] st.do = "deleteCategories" -> [db |-> [d EXCEPT !.categories = {}], ok |-> TRUE]
      [] st.do = "category" -> upsertCategory(d, st.row)
      [] st.do = "quote" -> upsertQuote(d, st.row)

\* importData, remote branch (after the format test): the statements run
\* one by one from statement k; the first that throws ends the call.
RECURSIVE importDataRemote(_, _, _, _)
importDataRemote(d, stmts, k, fail) ==
    IF k > Len(stmts) THEN [db |-> d, ok |-> TRUE]
    ELSE IF k = fail THEN [db |-> d] @@ Thrown
    ELSE LET r == runStatement(d, stmts[k])
         IN  IF r.ok THEN importDataRemote(r.db, stmts, k + 1, fail)
             ELSE [db |-> r.db] @@ Thrown

-----------------------------------------------------------------------------
(* What the store holds, whichever backend is active *)

localQuotes == IF Has(localStorage, "quotes") THEN JSONparse(localStorage.quotes) ELSE <<>>

localCategories ==
    IF Has(localStorage, "categories") THEN JSONparse(localStorage.categories) ELSE defaults

\* The quotes and categories of the active backend, as sets.
storedQuotes == IF sql THEN db.quotes ELSE Range(localQuotes)

storedCategories == IF sql THEN db.categories ELSE Range(localCategories)

quoteCount == IF sql THEN Cardinality(db.quotes) ELSE Len(localQuotes)

categoryCount == IF sql THEN Cardinality(db.categories) ELSE Len(localCategories)

-----------------------------------------------------------------------------
(* Inputs *)

Names == {"", ESSAY, READING}

Draft(category, is_pinned) ==
    [title |-> <<"Q">>, content |-> <<"a">>, author |-> <<>>, comment |-> <<>>,
     category |-> category, is_pinned |-> is_pinned]

Drafts == {Draft(UNCATEGORIZED, FALSE), Draft(ESSAY, TRUE)}

Partials == {[is_pinned |-> TRUE], [confidence |-> 150], [category |-> GHOST]}

\* An id no record carries.
NoSuchId == T0 - 1

QuoteIds == {q.id : q \in storedQuotes} \cup {NoSuchId}

\* The ids deleteCategory is called with: a default, the sentinel's, the
\* added categories', and one that is not there.
CategoryIds ==
    {defaults[1].id, defaults[4].id, NoSuchId}
        \cup {c.id : c \in {c \in storedCategories : c.id > Len(defaults)}}

\* A snapshot written by another installation: no sentinel category, a
\* quote of a category that is not in it, a confidence out of range.
ForeignSnapshot ==
    [quotes |-> <<[id |-> 7, title |-> <<>>, content |-> <<"a">>, author |-> <<>>,
                   comment |-> <<"q">>, category |-> GHOST, is_pinned |-> FALSE,
                   confidence |-> 150, last_accessed_at |-> T0, created_at |-> T0]>>,
     categories |-> <<[id |-> 9, name |-> ESSAY]>>,
     version |-> "1.0"]

\* A snapshot without the categories key.
BrokenSnapshot == [quotes |-> <<>>, version |-> "1.0"]

\* The texts importData is called with: the two above and the last export.
Snapshots ==
    {JSONstringify(ForeignSnapshot), JSONstringify(BrokenSnapshot)}
        \cup (IF ret.op = "exportData" THEN {ret.val} ELSE {})

Categories == {""}

Searches == {<<>>}

\* The steps of the clock: a millisecond, seven days.
Advances == {1, DecayDays * MsPerDay}

-----------------------------------------------------------------------------
(* The calls.  ret records the call, whether it returned (ok) or threw,    *)
(* and what it returned.                                                   *)

Returned(op, arg, fail, r) ==
    [op |-> op, arg |-> arg, fail |-> fail, ok |-> r.ok,
     val |-> IF Has(r, "val") THEN r.val ELSE "void"]

\* getCategories
GetCategories(fail) ==
    /\ fail = 0 \/ sql
    /\ IF sql /\ fail = 0
       THEN /\ ret' = Returned("getCategories", <<>>, fail,
                               [ok |-> TRUE, val |-> selectCategories(db)])
            /\ UNCHANGED localStorage
       ELSE LET got == getLocalCategories(localStorage)
            IN  /\ ret' = Returned("getCategories", <<>>, fail, [ok |-> TRUE, val |-> got.val])
                /\ localStorage' = got.ls
    /\ UNCHANGED <<sql, db, now, calls>>

\* getQuotes whose fallback drops the arguments: this.getLocalQuotes().
GetQuotesBareFallback(category, search, fail) ==
    /\ fail = 0 \/ sql
    /\ IF sql /\ fail = 0
       THEN \E result \in selectQuotes(db, category, search) :
               ret' = Returned("getQuotes", <<category, search>>, fail,
                               [ok |-> TRUE, val |-> result])
       ELSE ret' = Returned("getQuotes", <<category, search>>, fail,
                            [ok |-> TRUE,
                             val |-> getLocalQuotes(localStorage,
                                        IF sql THEN "" ELSE category,
                                        IF sql THEN <<>> ELSE search)])
    /\ UNCHANGED <<sql, db, localStorage, now, calls>>

\* getQuotes
GetQuotes(category, search, fail) ==
    /\ fail = 0 \/ sql
    /\ IF sql /\ fail = 0
       THEN \E result \in selectQuotes(db, category, search) :
               ret' = Returned("getQuotes", <<category, search>>, fail,
                               [ok |-> TRUE, val |-> result])
       ELSE ret' = Returned("getQuotes", <<category, search>>, fail,
                            [ok |-> TRUE, val |-> getLocalQuotes(localStorage, category, search)])
    /\ UNCHANGED <<sql, db, localStorage, now, calls>>

\* A mutating call that, like the reads, answers a remote error from the
\* local store.
MutateFallingBack(op, arg, fail, remote, local) ==
    /\ fail = 0 \/ sql
    /\ calls < MaxCalls
    /\ calls' = calls + 1
    /\ IF sql /\ remote.ok
       THEN /\ db' = remote.db
            /\ ret' = Returned(op, arg, fail, remote)
            /\ UNCHANGED localStorage
       ELSE /\ localStorage' = local.ls
            /\ ret' = Returned(op, arg, fail, local)
            /\ db' = IF sql THEN remote.db ELSE db
    /\ UNCHANGED <<sql, now>>

\* A mutating call: the remote branch when this.sql is set, else the local.
Mutate(op, arg, fail, remote, local) ==
    /\ fail = 0 \/ sql
    /\ calls < MaxCalls
    /\ calls' = calls + 1
    /\ IF sql
       THEN /\ db' = remote.db
            /\ ret' = Returned(op, arg, fail, remote)
            /\ UNCHANGED localStorage
       ELSE /\ localStorage' = local.ls
            /\ ret' = Returned(op, arg, fail, local)
            /\ UNCHANGED db
    /\ UNCHANGED <<sql, now>>

AddCategory(name, fail) ==
    /\ categoryCount < Len(defaults) + MaxAddedCategories
    /\ Mutate("addCategory", <<name>>, fail,
              addCategoryRemote(db, name, fail),
              addCategoryLocal(localStorage, name, now))

DeleteCategory(id, fail) ==
    Mutate("deleteCategory", <<id>>, fail,
           deleteCategoryRemote(db, id, fail),
           deleteCategoryLocal(localStorage, id))

AddQuote(quote, fail) ==
    /\ quoteCount < MaxQuotes
    /\ \E skew \in 0..MaxSkew :
          Mutate("addQuote", <<quote>>, fail,
                 addQuoteRemote(db, quote, now, now + skew, fail),
                 addQuoteLocal(localStorage, quote, now))

UpdateQuote(id, quote, fail) ==
    Mutate("updateQuote", <<id, quote>>, fail,
           updateQuoteRemote(db, id, quote, fail),
           updateQuoteLocal(localStorage, id, quote))

DeleteQuote(id, fail) ==
    Mutate("deleteQuote", <<id>>, fail,
           deleteQuoteRemote(db, id, fail),
           deleteQuoteLocal(localStorage, id))

BoostKnowledge(id, fail) ==
    Mutate("boostKnowledge", <<id>>, fail,
           boostKnowledgeRemote(db, id, now, fail),
           boostKnowledgeLocal(localStorage, id, now))

DecayKnowledge(fail) ==
    Mutate("decayKnowledge", <<>>, fail,
           decayKnowledgeRemote(db, now, fail),
           decayKnowledgeLocal(localStorage, now))

\* exportData that reads the quotes of the sentinel category only.
ExportDataOneCategory(failQuotes, failCategories) ==
    /\ (failQuotes = 0 /\ failCategories = 0) \/ sql
    /\ LET got == getLocalCategories(localStorage)
           localRead == ~sql \/ failCategories # 0
       IN  /\ \E quotes \in IF sql /\ failQuotes = 0
                            THEN selectQuotes(db, UNCATEGORIZED, <<>>)
                            ELSE {getLocalQuotes(localStorage, UNCATEGORIZED, <<>>)} :
               LET categories == IF localRead THEN got.val ELSE selectCategories(db)
               IN ret' = Returned("exportData", <<>>, <<failQuotes, failCategories>>,
                            [ok |-> TRUE,
                             val |-> JSONstringify(
                                [quotes |-> quotes, categories |-> categories,
                                 version |-> "1.0", export_at |-> now])])
           /\ localStorage' = IF localRead THEN got.ls ELSE localStorage
    /\ UNCHANGED <<sql, db, now, calls>>

\* exportData: getQuotes() and getCategories(), each with its own fallback.
ExportData(failQuotes, failCategories) ==
    /\ (failQuotes = 0 /\ failCategories = 0) \/ sql
    /\ LET got == getLocalCategories(localStorage)
           localRead == ~sql \/ failCategories # 0
       IN  /\ \E quotes \in IF sql /\ failQuotes = 0
                            THEN selectQuotes(db, "", <<>>)
                            ELSE {getLocalQuotes(localStorage, "", <<>>)} :
               LET categories == IF localRead THEN got.val ELSE selectCategories(db)
               IN ret' = Returned("exportData", <<>>, <<failQuotes, failCategories>>,
                            [ok |-> TRUE,
                             val |-> JSONstringify(
                                [quotes |-> quotes, categories |-> categories,
                                 version |-> "1.0", export_at |-> now])])
           /\ localStorage' = IF localRead THEN got.ls ELSE localStorage
    /\ UNCHANGED <<sql, db, now, calls>>

\* importData that clears the quotes before it looks at the format.
ImportDataClearingFirst(json, fail) ==
    LET data == JSONparse(json)
    IN  IF ~Has(data, "quotes") \/ ~Has(data, "categories")
        THEN /\ fail = 0
             /\ calls < MaxCalls
             /\ calls' = calls + 1
             /\ ret' = Returned("importData", <<json>>, fail,
                                [ok |-> FALSE, val |-> "Invalid data format"])
             /\ db' = IF sql THEN [db EXCEPT !.quotes = {}] ELSE db
             /\ localStorage' = IF sql THEN localStorage
                                ELSE With(localStorage, "quotes", JSONstringify(<<>>))
             /\ UNCHANGED <<sql, now>>
        ELSE /\ fail <= Len(importStatements(data))
             /\ Len(data.quotes) <= MaxQuotes
             /\ Mutate("importData", <<json>>, fail,
                       importDataRemote(db, importStatements(data), 1, fail),
                       importDataLocal(localStorage, data))

\* importData
ImportData(json, fail) ==
    LET data == JSONparse(json)
    IN  IF ~Has(data, "quotes") \/ ~Has(data, "categories")
        THEN /\ fail = 0
             /\ calls < MaxCalls
             /\ calls' = calls + 1
             /\ ret' = Returned("importData", <<json>>, fail,
                                [ok |-> FALSE, val |-> "Invalid data format"])
             /\ UNCHANGED <<sql, db, localStorage, now>>
        ELSE /\ fail <= Len(importStatements(data))
             /\ Len(data.quotes) <= MaxQuotes
             /\ Mutate("importData", <<json>>, fail,
                       importDataRemote(db, importStatements(data), 1, fail),
                       importDataLocal(localStorage, data))

\* The clock runs on: by milliseconds at first, then by seven days.
Tick(d) ==
    /\ \/ d = 1 /\ now + d <= T0 + MaxDrift
       \/ d = DecayDays * MsPerDay /\ now = T0 + MaxDrift
    /\ now' = now + d
    /\ UNCHANGED <<sql, db, localStorage, calls, ret>>

-----------------------------------------------------------------------------

\* The database as initDb leaves it: the tables, the default categories.
InitialDb ==
    [quotes |-> {}, categories |-> Range(defaults),
     quotes_id_seq |-> 1, categories_id_seq |-> Len(defaults) + 1]

\* After the constructor: this.sql is set iff DATABASE_URL is and neon()
\* did not throw.
Init ==
    /\ sql \in BOOLEAN
    /\ db = InitialDb
    /\ localStorage = [k \in {} |-> ""]
    /\ now = T0
    /\ calls = 0
    /\ ret = [op |-> "constructor", arg |-> <<>>, fail |-> 0, ok |-> TRUE, val |-> "void"]

Next ==
    \/ GetCategories(0)
    \/ \E category \in Categories, search \in Searches : GetQuotes(category, search, 0)
    \/ \E name \in Names : AddCategory(name, 0)
    \/ \E id \in CategoryIds : DeleteCategory(id, 0)
    \/ \E quote \in Drafts : AddQuote(quote, 0)
    \/ \E id \in QuoteIds, quote \in Partials : UpdateQuote(id, quote, 0)
    \/ \E id \in QuoteIds : DeleteQuote(id, 0)
    \/ \E id \in QuoteIds : BoostKnowledge(id, 0)
    \/ DecayKnowledge(0)
    \/ ExportData(0, 0)
    \/ \E json \in Snapshots : ImportData(json, 0)
    \/ \E d \in Advances : Tick(d)

Spec == Init /\ [][Next]_vars

-----------------------------------------------------------------------------
(* The query specification: one read of every small store.  Both backends *)
(* hold the same quotes, so that what the remote query returns can be set  *)
(* against what the local one returns.                                     *)

Hit == <<"a", "Q", "u">>
Miss == <<"a">>

\* The quotes the sort tells apart: every combination of the three keys.
SortVariants ==
    {[title |-> Miss, content |-> Miss, author |-> <<>>, comment |-> <<>>,
      category |-> ESSAY, is_pinned |-> p, confidence |-> c,
      last_accessed_at |-> T0 + 1, created_at |-> t] :
        p \in BOOLEAN, c \in {50, InitialConfidence}, t \in {T0, T0 + 1}}

\* The quotes the filters tell apart: the field that holds the searched
\* text, in the category asked for; the text, and none, in another category.
FilterQuote(f, c) ==
    [title |-> IF f = "title" THEN Hit ELSE <<>>,
     content |-> IF f = "content" THEN Hit ELSE Miss,
     author |-> IF f = "author" THEN Hit ELSE <<>>,
     comment |-> IF f = "comment" THEN Hit ELSE <<>>,
     category |-> c, is_pinned |-> FALSE, confidence |-> InitialConfidence,
     last_accessed_at |-> T0 + 1, created_at |-> T0]

FilterVariants ==
    {FilterQuote(f, ESSAY) : f \in {"title", "content", "author", "comment"}}
        \cup {FilterQuote("content", UNCATEGORIZED), FilterQuote("none", UNCATEGORIZED)}

QuotePool == SortVariants \cup FilterVariants

\* A store of n quotes of the pool, with ids 1..n in stored order.
StoresOf(n) ==
    {[i \in 1..n |-> With(s[i], "id", i)] : s \in [1..n -> QuotePool]}

QueryCategories == {"", ALL, ESSAY}

QuerySearches == {<<>>, <<"q", "u">>, <<"_">>}

InitQuery ==
    /\ sql \in BOOLEAN
    /\ \E n \in 0..MaxStored : \E quotes \in StoresOf(n) :
          /\ db = [InitialDb EXCEPT !.quotes = Range(quotes), !.quotes_id_seq = n + 1]
          /\ \E seeded \in BOOLEAN :
                localStorage =
                    IF seeded
                    THEN [quotes |-> JSONstringify(quotes),
                          categories |-> JSONstringify(SubSeq(defaults, 3, 4))]
                    ELSE [quotes |-> JSONstringify(quotes)]
    /\ now = T0
    /\ calls = 0
    /\ ret = [op |-> "constructor", arg |-> <<>>, fail |-> 0, ok |-> TRUE, val |-> "void"]

\* One read of the store, with or without a failing remote statement.
Fresh == ret.op = "constructor"

NextQuery ==
    \/ \E fail \in 0..1 : Fresh /\ GetCategories(fail)
    \/ \E category \in QueryCategories, search \in QuerySearches, fail \in 0..1 :
          Fresh /\ GetQuotes(category, search, fail)
    \/ \E failQuotes \in 0..1, failCategories \in 0..1 :
          Fresh /\ ExportData(failQuotes, failCategories)

QuerySpec == InitQuery /\ [][NextQuery]_vars

-----------------------------------------------------------------------------
(* The outage specification: the remote backend is active and any one of   *)
(* the remote statements of a mutating call may throw (fail = 0: none).    *)

\* The most statements one call sends, importData apart.
MaxStatements == 3

InitOutage == Init /\ sql

\* The outage specification makes fewer calls in a behaviour than Spec.
MaxOutageCalls == 2

Open == calls < MaxOutageCalls

NextOutage ==
    \/ \E name \in Names, fail \in 0..1 : Open /\ AddCategory(name, fail)
    \/ \E id \in CategoryIds, fail \in 0..MaxStatements :
          Open /\ DeleteCategory(id, fail)
    \/ \E quote \in Drafts, fail \in 0..1 : Open /\ AddQuote(quote, fail)
    \/ \E id \in QuoteIds, quote \in Partials, fail \in 0..2 :
          Open /\ UpdateQuote(id, quote, fail)
    \/ \E id \in QuoteIds, fail \in 0..1 : Open /\ DeleteQuote(id, fail)
    \/ \E id \in QuoteIds, fail \in 0..1 : Open /\ BoostKnowledge(id, fail)
    \/ \E fail \in 0..1 : Open /\ DecayKnowledge(fail)
    \/ \E json \in Snapshots, fail \in 0..(MaxStatements + 1) :
          Open /\ ImportData(json, fail)
    \/ \E d \in Advances : Tick(d)

OutageSpec == InitOutage /\ [][NextOutage]_vars

-----------------------------------------------------------------------------
(* The update specification: one updateQuote on every small store, through *)
(* StorageService and through the HTTP variant (the client of              *)
(* src/unnamed/part_000 in api mode, calling PUT /api/quotes/:id).         *)

\* PUT /api/quotes/:id of server.ts: the six columns are set from the body,
\* an absent one to its fallback.  content has none and the column is NOT
\* NULL, so without it the UPDATE throws and the handler answers 500.
putQuote(d, id, body) ==
    LET Set(q) ==
            [q EXCEPT
                !.title = IF Has(body, "title") THEN body.title ELSE <<>>,
                !.content = body.content,
                !.author = IF Has(body, "author") THEN body.author ELSE <<>>,
                !.comment = IF Has(body, "comment") THEN body.comment ELSE <<>>,
                !.category = IF Has(body, "category") /\ body.category # ""
                             THEN body.category ELSE UNCATEGORIZED,
                !.is_pinned = Has(body, "is_pinned") /\ body.is_pinned]
    IN  IF ~Has(body, "content")
        THEN [db |-> d, status |-> 500, body |-> [error |-> "not null"]]
        ELSE [db |-> [d EXCEPT !.quotes = {IF q.id = id THEN Set(q) ELSE q : q \in @}],
              status |-> 200, body |-> [success |-> TRUE]]

\* updateQuote of the api-mode client: the PUT, then res.json() whatever
\* the status.
updateQuoteApi(d, id, quote) ==
    LET res == putQuote(d, id, quote)
    IN  [db |-> res.db, ok |-> TRUE, val |-> res.body]

UpdateQuoteApi(id, quote) ==
    /\ sql
    /\ calls < MaxCalls
    /\ calls' = calls + 1
    /\ LET r == updateQuoteApi(db, id, quote)
       IN  /\ db' = r.db
           /\ ret' = Returned("updateQuote", <<id, quote>>, 0, r)
    /\ UNCHANGED <<sql, localStorage, now>>

\* The partials updateQuote is called with: the pin toggle of the UI, a new
\* text, and partials that carry the fields set at creation.
UpdatePartials ==
    {[is_pinned |-> TRUE], [content |-> <<"b">>, comment |-> <<"c">>],
     [id |-> NoSuchId], [created_at |-> T0 + 5]}

NextUpdate ==
    \/ \E id \in QuoteIds, quote \in UpdatePartials : Fresh /\ UpdateQuote(id, quote, 0)
    \/ \E id \in QuoteIds, quote \in UpdatePartials : Fresh /\ UpdateQuoteApi(id, quote)

UpdateSpec == InitQuery /\ [][NextUpdate]_vars

-----------------------------------------------------------------------------
(* The lifecycle specification: boostKnowledge and decayKnowledge on small *)
(* stores of quotes of every age, as the clock runs.                       *)

\* A quote of the given confidence, last accessed at the given time.
LifeQuote(c, a) ==
    [title |-> <<>>, content |-> Miss, author |-> <<>>, comment |-> <<>>,
     category |-> UNCATEGORIZED, is_pinned |-> FALSE, confidence |-> c,
     last_accessed_at |-> a, created_at |-> a]

\* A quote about to decay to nothing and one in the middle of the range, both
\* last accessed fourteen days before T0; a fresh import last accessed exactly
\* seven days before T0; a quote about to reach 1.0, accessed at T0.
LifePool ==
    {LifeQuote(3, T0 - 2 * DecayDays * MsPerDay),
     LifeQuote(50, T0 - 2 * DecayDays * MsPerDay),
     LifeQuote(InitialConfidence, T0 - DecayDays * MsPerDay),
     LifeQuote(95, T0)}

LifeStoresOf(n) ==
    {[i \in 1..n |-> With(s[i], "id", i)] : s \in [1..n -> LifePool]}

InitLife ==
    /\ sql \in BOOLEAN
    /\ \E n \in 1..MaxStored : \E quotes \in LifeStoresOf(n) :
          /\ db = [InitialDb EXCEPT !.quotes = Range(quotes), !.quotes_id_seq = n + 1]
          /\ localStorage = [quotes |-> JSONstringify(quotes)]
    /\ now = T0
    /\ calls = 0
    /\ ret = [op |-> "constructor", arg |-> <<>>, fail |-> 0, ok |-> TRUE, val |-> "void"]

\* The lifecycle specification makes fewer calls in a behaviour than Spec.
MaxLifeCalls == 2

Young == calls < MaxLifeCalls

NextLife ==
    \/ \E id \in QuoteIds : Young /\ BoostKnowledge(id, 0)
    \/ Young /\ DecayKnowledge(0)
    \/ \E d \in Advances : Tick(d)

LifeSpec == InitLife /\ [][NextLife]_vars

-----------------------------------------------------------------------------
(* The import specification: one importData call, after an exportData or   *)
(* on its own, on small stores.                                            *)

\* A quote that has decayed to nothing and one just added.
ImportPool ==
    {LifeQuote(0, T0 - 2 * DecayDays * MsPerDay), LifeQuote(InitialConfidence, T0)}

ImportStoresOf(n) ==
    {[i \in 1..n |-> With(s[i], "id", i)] : s \in [1..n -> ImportPool]}

InitImport ==
    /\ sql \in BOOLEAN
    /\ \E n \in 0..MaxStored : \E quotes \in ImportStoresOf(n) :
          /\ db = [InitialDb EXCEPT !.quotes = Range(quotes), !.quotes_id_seq = n + 1]
          /\ \E seeded \in BOOLEAN :
                localStorage =
                    IF seeded
                    THEN [quotes |-> JSONstringify(quotes),
                          categories |-> JSONstringify(defaults)]
                    ELSE [quotes |-> JSONstringify(quotes)]
    /\ now = T0
    /\ calls = 0
    /\ ret = [op |-> "constructor", arg |-> <<>>, fail |-> 0, ok |-> TRUE, val |-> "void"]

\* A record of a snapshot: the quote `id` with the given content, without
\* the optional fields.
SnapshotQuote(id, content) ==
    [id |-> id, title |-> <<>>, content |-> content, author |-> <<>>, comment |-> <<>>,
     category |-> ESSAY, is_pinned |-> TRUE, created_at |-> T0 + 1]

\* The same with the optional fields supplied.
FullSnapshotQuote(id, content, confidence) ==
    SnapshotQuote(id, content)
        @@ [confidence |-> confidence, last_accessed_at |-> T0 + 2]

\* A quote under a stored id without the optional fields, and one under a
\* new id with confidence 0.0; one category, under a new id.
MergeSnapshot ==
    [quotes |-> <<SnapshotQuote(1, <<"b">>), FullSnapshotQuote(7, <<"c">>, 0)>>,
     categories |-> <<[id |-> 9, name |-> ESSAY]>>,
     version |-> "1.0"]

\* Two records of one id, as a local store that holds two quotes of one id
\* exports them; the stored categories.
TwiceSnapshot ==
    [quotes |-> <<FullSnapshotQuote(7, <<"b">>, 50), FullSnapshotQuote(7, <<"c">>, 50)>>,
     categories |-> defaults,
     version |-> "1.0"]

\* A snapshot without the quotes key.
QuotelessSnapshot == [categories |-> defaults, version |-> "1.0"]

\* The texts importData is called with: the above and the last export.
ImportSnapshots ==
    {JSONstringify(MergeSnapshot), JSONstringify(TwiceSnapshot),
     JSONstringify(BrokenSnapshot), JSONstringify(QuotelessSnapshot)}
        \cup (IF ret.op = "exportData" THEN {ret.val} ELSE {})

NextImport ==
    \/ Fresh /\ ExportData(0, 0)
    \/ \E json \in ImportSnapshots : calls = 0 /\ ImportData(json, 0)

ImportSpec == InitImport /\ [][NextImport]_vars

-----------------------------------------------------------------------------
(* The deletion specification: deleteCategory statement by statement.  The *)
(* call makes two writes with an await between them; it may be cut short   *)
(* there (the page is closed, the second statement throws).                *)

\* deleteCategory, remote branch, up to its first write: the SELECT and the
\* UPDATE of the quotes.
deleteCategoryRemoteFirst(d, id) ==
    LET category == {c \in d.categories : c.id = id}
    IN  IF category = {} THEN [db |-> d, found |-> FALSE]
        ELSE LET categoryName == (CHOOSE c \in category : TRUE).name
             IN  [db |-> [d EXCEPT !.quotes = reassignQuotes(@, categoryName)],
                  found |-> TRUE, name |-> categoryName]

\* ... and its second write: the DELETE of the category row.
deleteCategoryRemoteSecond(d, id) ==
    [d EXCEPT !.categories = {c \in @ : c.id # id}]

\* deleteCategory, local branch, up to its first write: the categories without
\* the deleted one are saved.
deleteCategoryLocalFirst(ls, id) ==
    LET got == getLocalCategories(ls)
        Keep(c) == c.id # id
        idx == findIndex(got.val, id)
    IN  IF idx = 0 THEN [ls |-> got.ls, found |-> FALSE]
        ELSE [ls |-> With(got.ls, "categories", JSONstringify(SelectSeq(got.val, Keep))),
              found |-> TRUE, name |-> got.val[idx].name]

\* ... and its second write: the quotes, those of the deleted category moved
\* to the sentinel, are saved.
deleteCategoryLocalSecond(ls, name) ==
    LET sorted == getLocalQuotes(ls, "", <<>>)
        quotes == [i \in DOMAIN sorted |->
                      IF sorted[i].category = name
                      THEN With(sorted[i], "category", UNCATEGORIZED)
                      ELSE sorted[i]]
    IN  With(ls, "quotes", JSONstringify(quotes))

\* The call is suspended between its two writes.
Suspended == ret.op = "deleteCategory.await"

\* deleteCategory up to the await that follows its first write, or to its
\* return when there is no category of that id.
DeleteCategoryFirst(id) ==
    /\ Fresh
    /\ LET r == IF sql THEN deleteCategoryRemoteFirst(db, id)
                ELSE deleteCategoryLocalFirst(localStorage, id)
       IN  /\ db' = IF sql THEN r.db ELSE db
           /\ localStorage' = IF sql THEN localStorage ELSE r.ls
           /\ IF r.found
              THEN /\ ret' = [op |-> "deleteCategory.await", arg |-> <<id, r.name>>,
                              fail |-> 0, ok |-> TRUE, val |-> "void"]
                   /\ UNCHANGED calls
              ELSE /\ ret' = Returned("deleteCategory", <<id>>, 0, [ok |-> TRUE])
                   /\ calls' = calls + 1
    /\ UNCHANGED <<sql, now>>

\* The rest of the call: the second write and the return.
DeleteCategorySecond ==
    /\ Suspended
    /\ db' = IF sql THEN deleteCategoryRemoteSecond(db, ret.arg[1]) ELSE db
    /\ localStorage' = IF sql THEN localStorage
                       ELSE deleteCategoryLocalSecond(localStorage, ret.arg[2])
    /\ ret' = Returned("deleteCategory", <<ret.arg[1]>>, 0, [ok |-> TRUE])
    /\ calls' = calls + 1
    /\ UNCHANGED <<sql, now>>

\* The call ends at the await: the second write is never made.
DeleteCategoryCut ==
    /\ Suspended
    /\ ret' = Returned("deleteCategory", <<ret.arg[1]>>, 2, Thrown)
    /\ calls' = calls + 1
    /\ UNCHANGED <<sql, db, localStorage, now>>

\* Quotes of the default categories, the sentinel among them.
DeletionPool ==
    {With(LifeQuote(InitialConfidence, T0), "category", c) :
        c \in {READING, GOLDEN, UNCATEGORIZED}}

DeletionStoresOf(n) ==
    {[i \in 1..n |-> With(s[i], "id", i)] : s \in [1..n -> DeletionPool]}

InitDeletion ==
    /\ sql \in BOOLEAN
    /\ \E n \in 0..MaxStored : \E quotes \in DeletionStoresOf(n) :
          /\ db = [InitialDb EXCEPT !.quotes = Range(quotes), !.quotes_id_seq = n + 1]
          /\ \E seeded \in BOOLEAN :
                localStorage =
                    IF seeded
                    THEN [quotes |-> JSONstringify(quotes),
                          categories |-> JSONstringify(defaults)]
                    ELSE [quotes |-> JSONstringify(quotes)]
    /\ now = T0
    /\ calls = 0
    /\ ret = [op |-> "constructor", arg |-> <<>>, fail |-> 0, ok |-> TRUE, val |-> "void"]

\* The ids of the categories that are not the sentinel, and one not stored.
DeletableIds == {c.id : c \in {c \in Range(defaults) : c.name # UNCATEGORIZED}} \cup {NoSuchId}

NextDeletion ==
    \/ \E id \in DeletableIds : DeleteCategoryFirst(id)
    \/ DeleteCategorySecond
    \/ DeleteCategoryCut

DeletionSpec == InitDeletion /\ [][NextDeletion]_vars

-----------------------------------------------------------------------------
(* The race specification: two callers, each making one call, their steps  *)
(* interleaved at the awaits.  ret.val holds a frame for each caller: the  *)
(* call, where it stands (pc), and the locals it carries over the await.   *)

Callers == {1, 2}

Idle == [op |-> "none", arg |-> <<>>, pc |-> "idle", read |-> <<>>, t |-> 0,
         ok |-> TRUE, val |-> <<>>]

\* addQuote, local branch, after `await this.getLocalQuotes()`: the new quote
\* is pushed onto the list read before the await, and that list is saved.
addQuoteLocalResume(ls, read, quote, t, id) ==
    LET newQuote == Spread(quote, [id |-> id, confidence |-> InitialConfidence,
                                   last_accessed_at |-> t, created_at |-> t])
    IN  [ls |-> With(ls, "quotes", JSONstringify(Append(read, newQuote))),
         ok |-> TRUE, val |-> <<newQuote>>]

\* updateQuote, local branch, after the await.
updateQuoteLocalResume(ls, read, id, quote) ==
    LET idx == findIndex(read, id)
    IN  IF idx # 0
        THEN LET merged == Spread(read[idx], quote)
             IN  [ls |-> With(ls, "quotes", JSONstringify([read EXCEPT ![idx] = merged])),
                  ok |-> TRUE, val |-> <<merged>>]
        ELSE [ls |-> ls, ok |-> FALSE, val |-> <<>>]

\* boostKnowledge, local branch, after the await.
boostKnowledgeLocalResume(ls, read, id, t) ==
    LET idx == findIndex(read, id)
    IN  IF idx # 0
        THEN LET q1 == With(read[idx], "confidence",
                            Min(MaxConfidence, read[idx].confidence + BoostStep))
                 q2 == With(q1, "last_accessed_at", t)
             IN  [ls |-> With(ls, "quotes", JSONstringify([read EXCEPT ![idx] = q2])),
                  ok |-> TRUE, val |-> <<>>]
        ELSE [ls |-> ls, ok |-> TRUE, val |-> <<>>]

\* updateQuote, remote branch: the row the SELECT returns, as a list.
updateQuoteRemoteSelect(d, id) ==
    LET found == {q \in d.quotes : q.id = id}
    IN  IF found = {} THEN <<>> ELSE <<CHOOSE q \in found : TRUE>>

\* An UPDATE that sets only the columns the partial names.
updateQuoteRemoteUpdateNamed(d, existing, id, quote) ==
    LET Write(q) == [f \in DOMAIN q |->
                        IF f \in UpdatedColumns /\ Has(quote, f) THEN quote[f] ELSE q[f]]
        rows == {Write(q) : q \in {q \in d.quotes : q.id = id}}
    IN  [db |-> [d EXCEPT !.quotes = {q \in @ : q.id # id} \cup rows],
         ok |-> TRUE,
         val |-> IF rows = {} THEN <<>> ELSE <<CHOOSE q \in rows : TRUE>>]

\* updateQuote, remote branch: the UPDATE sets the eight columns of the row
\* of that id from { ...existing, ...quote }, existing being what the SELECT
\* returned.
updateQuoteRemoteUpdate(d, existing, id, quote) ==
    LET updated == Spread(existing, quote)
        Write(q) == [f \in DOMAIN q |-> IF f \in UpdatedColumns THEN updated[f] ELSE q[f]]
        rows == {Write(q) : q \in {q \in d.quotes : q.id = id}}
    IN  [db |-> [d EXCEPT !.quotes = {q \in @ : q.id # id} \cup rows],
         ok |-> TRUE,
         val |-> IF rows = {} THEN <<>> ELSE <<CHOOSE q \in rows : TRUE>>]

\* The frames with caller c's replaced.
Framed(c, frame) ==
    [ret EXCEPT !.val = [@ EXCEPT ![c] = frame]]

\* A caller makes a call: it runs to the first await.  The local branches
\* have read the quotes by then; the remote ones have sent a statement.
StartCall(c, op, arg) ==
    /\ ret.val[c].pc = "idle"
    /\ ret' = Framed(c, [op |-> op, arg |-> arg,
                         pc |-> IF sql /\ op = "updateQuote" THEN "select" ELSE "await",
                         read |-> IF sql THEN <<>> ELSE getLocalQuotes(localStorage, "", <<>>),
                         t |-> now, ok |-> TRUE, val |-> <<>>])
    /\ UNCHANGED <<sql, db, localStorage, now, calls>>

\* The call of caller c returns: its last step has run.
Finished(c, r) ==
    /\ ret' = Framed(c, [ret.val[c] EXCEPT !.pc = "done", !.ok = r.ok, !.val = r.val])
    /\ calls' = calls + 1
    /\ UNCHANGED <<sql, now>>

\* addQuote after its await: the INSERT has run, or the list is saved.
AddQuoteResume(c) ==
    LET f == ret.val[c]
    IN  /\ f.op = "addQuote" /\ f.pc = "await"
        /\ IF sql
           THEN LET r == addQuoteRemote(db, f.arg[1], f.t, now, 0)
                IN  /\ db' = r.db
                    /\ Finished(c, [ok |-> r.ok, val |-> IF r.ok THEN <<r.val>> ELSE <<>>])
                    /\ UNCHANGED localStorage
           ELSE LET r == addQuoteLocalResume(localStorage, f.read, f.arg[1], f.t, now)
                IN  /\ localStorage' = r.ls
                    /\ Finished(c, r)
                    /\ UNCHANGED db

\* updateQuote, remote branch: the SELECT has run and the UPDATE is sent.
UpdateQuoteSelect(c) ==
    LET f == ret.val[c]
    IN  /\ f.op = "updateQuote" /\ f.pc = "select"
        /\ ret' = Framed(c, [f EXCEPT !.pc = "await",
                                      !.read = updateQuoteRemoteSelect(db, f.arg[1])])
        /\ UNCHANGED <<sql, db, localStorage, now, calls>>

\* updateQuote after its last await: the UPDATE has run, or the list is saved.
UpdateQuoteResume(c) ==
    LET f == ret.val[c]
    IN  /\ f.op = "updateQuote" /\ f.pc = "await"
        /\ IF sql
           THEN LET r == updateQuoteRemoteUpdate(
                             db, IF f.read = <<>> THEN [k \in {} |-> ""] ELSE f.read[1],
                             f.arg[1], f.arg[2])
                IN  /\ db' = r.db
                    /\ Finished(c, r)
                    /\ UNCHANGED localStorage
           ELSE LET r == updateQuoteLocalResume(localStorage, f.read, f.arg[1], f.arg[2])
                IN  /\ localStorage' = r.ls
                    /\ Finished(c, r)
                    /\ UNCHANGED db

\* boostKnowledge after its await: the UPDATE has run, or the list is saved.
BoostKnowledgeResume(c) ==
    LET f == ret.val[c]
    IN  /\ f.op = "boostKnowledge" /\ f.pc = "await"
        /\ IF sql
           THEN LET r == boostKnowledgeRemote(db, f.arg[1], f.t, 0)
                IN  /\ db' = r.db
                    /\ Finished(c, [ok |-> r.ok, val |-> <<>>])
                    /\ UNCHANGED localStorage
           ELSE LET r == boostKnowledgeLocalResume(localStorage, f.read, f.arg[1], f.t)
                IN  /\ localStorage' = r.ls
                    /\ Finished(c, r)
                    /\ UNCHANGED db

\* The calls the two callers make: on the quote of id 1, and new quotes.
RaceCalls ==
    {<<"addQuote", <<Draft(UNCATEGORIZED, FALSE)>>>>,
     <<"addQuote", <<Draft(READING, TRUE)>>>>,
     <<"updateQuote", <<1, [is_pinned |-> TRUE]>>>>,
     <<"updateQuote", <<1, [category |-> GOLDEN]>>>>,
     <<"boostKnowledge", <<1>>>>}

RacePool == {LifeQuote(50, T0 - 1)}

RaceStoresOf(n) ==
    {[i \in 1..n |-> With(s[i], "id", i)] : s \in [1..n -> RacePool]}

InitRace ==
    /\ sql \in BOOLEAN
    /\ \E n \in 1..MaxStored : \E quotes \in RaceStoresOf(n) :
          /\ db = [InitialDb EXCEPT !.quotes = Range(quotes), !.quotes_id_seq = n + 1]
          /\ localStorage = [quotes |-> JSONstringify(quotes)]
    /\ now = T0
    /\ calls = 0
    /\ ret = [op |-> "concurrent", arg |-> <<>>, fail |-> 0, ok |-> TRUE,
              val |-> [c \in Callers |-> Idle]]

NextRace ==
    \/ \E c \in Callers, call \in RaceCalls : StartCall(c, call[1], call[2])
    \/ \E c \in Callers : AddQuoteResume(c)
    \/ \E c \in Callers : UpdateQuoteSelect(c)
    \/ \E c \in Callers : UpdateQuoteResume(c)
    \/ \E c \in Callers : BoostKnowledgeResume(c)
    \/ \E d \in Advances : Tick(d)

RaceSpec == InitRace /\ [][NextRace]_vars

-----------------------------------------------------------------------------
(* The blank-search specification: one getQuotes of every small store,    *)
(* with no search term or with one that is only whitespace.                *)

\* Two spaces: a string that is truthy and empty once trimmed.
Blank == <<" ", " ">>

BlankSearches == {<<>>, Blank}

NextBlank ==
    \E category \in QueryCategories, search \in BlankSearches, fail \in 0..1 :
        Fresh /\ GetQuotes(category, search, fail)

BlankSpec == InitQuery /\ [][NextBlank]_vars

-----------------------------------------------------------------------------
(* The read-back specification: quotes and categories are added to an      *)
(* empty store and read back, the remote read of a getQuotes, of a          *)
(* getCategories or of either read of an exportData failing or not.         *)
(* Nothing is deleted and nothing is imported.                              *)

NextReadBack ==
    \/ \E quote \in Drafts, fail \in 0..1 : Open /\ AddQuote(quote, fail)
    \/ \E name \in Names : Open /\ AddCategory(name, 0)
    \/ \E fail \in 0..1 : GetQuotes("", <<>>, fail)
    \/ \E fail \in 0..1 : GetCategories(fail)
    \/ \E failQuotes \in 0..1, failCategories \in 0..1 :
          ExportData(failQuotes, failCategories)

ReadBackSpec == Init /\ [][NextReadBack]_vars

-----------------------------------------------------------------------------
(* The construction specification: the service is constructed under every  *)
(* configuration and then used; the calls are those of Spec and the         *)
(* setMode of the mode-switching client.                                    *)

\* What getDatabaseUrl returns: undefined, the empty string, a string that
\* is not a connection string, a connection string.
Undefined == "undefined"
Malformed == "localhost"
WellFormed == "postgresql://u:p@h.tld/db"

DatabaseUrls == {Undefined, "", Malformed, WellFormed}

\* neon(connectionString) parses the string and builds the query function;
\* it throws on a string that is not a connection string and sends nothing.
neon(url) == IF url = WellFormed THEN [ok |-> TRUE, val |-> TRUE] ELSE Thrown

\* The value of this.sql, as a flag, once the constructor has run.
constructor(url) ==
    IF url # Undefined /\ url # ""
    THEN IF neon(url).ok THEN TRUE ELSE FALSE
    ELSE FALSE

InitConstruct ==
    /\ \E url \in DatabaseUrls :
          /\ sql = constructor(url)
          /\ ret = [op |-> "constructor", arg |-> <<url>>, fail |-> 0,
                    ok |-> TRUE, val |-> "void"]
    /\ db = InitialDb
    /\ localStorage = [k \in {} |-> ""]
    /\ now = T0
    /\ calls = 0

\* setMode of the mode-switching client: the flag follows the mode, and the
\* mode (and the base address, when one is given) is kept for the next
\* construction.
SetMode(mode, baseUrl) ==
    /\ sql' = (mode # "local")
    /\ localStorage' =
          LET kept == With(localStorage, "storage_mode", mode)
          IN  IF baseUrl # "" THEN With(kept, "api_base_url", baseUrl) ELSE kept
    /\ ret' = Returned("setMode", <<mode, baseUrl>>, 0, [ok |-> TRUE])
    /\ UNCHANGED <<db, now, calls>>

Modes == {"local", "api"}

BaseUrls == {"", "/api"}

\* The construction specification makes fewer calls in a behaviour than Spec.
NextConstruct ==
    \/ Open /\ Next
    \/ \E mode \in Modes, baseUrl \in BaseUrls : SetMode(mode, baseUrl)

ConstructSpec == InitConstruct /\ [][NextConstruct]_vars

-----------------------------------------------------------------------------
(* Properties *)

\* The step is the call op(arg).
Called(op, arg) == calls' = calls + 1 /\ ret'.op = op /\ ret'.arg = arg

\* C1: every stored quote has a confidence, and it lies in [0.0, 1.0]
\* (0..100 hundredths), after any calls of addQuote, updateQuote,
\* boostKnowledge, decayKnowledge and importData.
C1_ConfidenceInRange ==
    \A q \in storedQuotes :
        Has(q, "confidence") /\ 0 <= q.confidence /\ q.confidence <= MaxConfidence

\* C2: the categories always contain the sentinel category.
C2_SentinelExists == \E c \in storedCategories : c.name = UNCATEGORIZED

\* C3: deleteCategory called with the id of the sentinel category deletes
\* nothing and changes no quote.
C3_SentinelDeleteRefused ==
    [][\A id \in CategoryIds :
          (/\ Called("deleteCategory", <<id>>)
           /\ \E c \in storedCategories : c.id = id /\ c.name = UNCATEGORIZED)
          => /\ storedCategories' = storedCategories
             /\ storedQuotes' = storedQuotes]_vars

\* C4: the category of every stored quote is the sentinel or the name of a
\* stored category.
C4_CategoryResolves ==
    \A q \in storedQuotes :
        \/ q.category = UNCATEGORIZED
        \/ \E c \in storedCategories : c.name = q.category

\* C5: a deleteCategory that returns, called with the id of an added
\* category c other than the sentinel, leaves every quote of c in the
\* sentinel category, every other quote as it was, and no category named c.
C5_DeleteCategoryReassigns ==
    [][\A id \in CategoryIds : \A c \in storedCategories :
          (/\ Called("deleteCategory", <<id>>) /\ ret'.ok
           /\ c.id = id /\ id > Len(defaults) /\ c.name # UNCATEGORIZED)
          => /\ storedQuotes' =
                  {IF q.category = c.name THEN With(q, "category", UNCATEGORIZED) ELSE q :
                      q \in storedQuotes}
             /\ \A k \in storedCategories' : k.name # c.name]_vars

\* (is_pinned, confidence, created_at) of a is lexicographically >= that of b.
KeysNotBelow(a, b) ==
    \/ a.is_pinned /\ ~b.is_pinned
    \/ /\ a.is_pinned = b.is_pinned
       /\ \/ a.confidence > b.confidence
          \/ a.confidence = b.confidence /\ a.created_at >= b.created_at

\* C6: what getQuotes returns is ordered by is_pinned, then confidence, then
\* created_at, all descending; no unpinned quote precedes a pinned one.
C6_ListIsOrdered ==
    ret.op = "getQuotes" =>
        /\ \A i \in 1..(Len(ret.val) - 1) : KeysNotBelow(ret.val[i], ret.val[i + 1])
        /\ \A i, j \in DOMAIN ret.val :
              (i < j /\ ret.val[j].is_pinned) => ret.val[i].is_pinned

\* C6 witness: the local sort moved a pinned quote, stored second, before an
\* unpinned one of the same category.
C6_Witness ==
    /\ ~sql /\ ret.op = "getQuotes" /\ ret.arg = <<ESSAY, <<>>>>
    /\ Len(ret.val) = 2
    /\ ret.val[1].id = 2 /\ ret.val[1].is_pinned /\ ~ret.val[2].is_pinned

\* The store that answered the last read.
answeredBy == IF sql /\ ret.fail = 0 THEN db.quotes ELSE Range(localQuotes)

\* The term occurs in the text, without regard to case.
Occurs(term, text) ==
    \E i \in 0..(Len(text) - Len(term)) :
        \A k \in 1..Len(term) :
            toLowerCaseChar(text[i + k]) = toLowerCaseChar(term[k])

\* The search filter of the contract: title, content, author or comment.
SearchAdmits(q, search) ==
    \/ search = <<>>
    \/ Occurs(search, q.title) \/ Occurs(search, q.content)
    \/ Occurs(search, q.author) \/ Occurs(search, q.comment)

\* The category filter of the contract.
CategoryAdmits(q, category) ==
    category = "" \/ category = ALL \/ q.category = category

\* C7: getQuotes(category, search) returns exactly the stored quotes that
\* pass the category filter and the search filter, each once.
C7_ListIsFiltered ==
    ret.op = "getQuotes" =>
        /\ Range(ret.val) =
              {q \in answeredBy :
                  CategoryAdmits(q, ret.arg[1]) /\ SearchAdmits(q, ret.arg[2])}
        /\ Cardinality(Range(ret.val)) = Len(ret.val)

\* C8: with a search term and no category filter, a stored quote is
\* returned iff the term occurs in its title, content, author or comment.
C8_SearchFindsEveryField ==
    (ret.op = "getQuotes" /\ ret.arg[2] # <<>> /\ ret.arg[1] = "") =>
        \A q \in answeredBy :
            (q \in Range(ret.val)) <=>
                (\/ Occurs(ret.arg[2], q.title) \/ Occurs(ret.arg[2], q.content)
                 \/ Occurs(ret.arg[2], q.author) \/ Occurs(ret.arg[2], q.comment))

\* C9: over the same stored quotes the remote query returns what the local
\* query returns, in the same order.
C9_BackendsAgree ==
    (sql /\ ret.op = "getQuotes" /\ ret.fail = 0 /\ db.quotes = Range(localQuotes)) =>
        ret.val = getLocalQuotes(localStorage, ret.arg[1], ret.arg[2])

\* C10: a read whose remote statement throws returns, without an error,
\* what the local backend returns for the same category and search term.
C10_ReadFallsBack ==
    /\ (sql /\ ret.op = "getQuotes" /\ ret.fail = 1) =>
          /\ ret.ok
          /\ ret.val = getLocalQuotes(localStorage, ret.arg[1], ret.arg[2])
    /\ (sql /\ ret.op = "getCategories" /\ ret.fail = 1) =>
          /\ ret.ok
          /\ ret.val = getLocalCategories(localStorage).val

\* C10 witness: the remote read threw and the call returned the local
\* quotes of the category that match the term.
C10_Witness ==
    /\ sql /\ ret.op = "getQuotes" /\ ret.fail = 1 /\ ret.ok
    /\ ret.arg = <<ESSAY, <<"q", "u">>>>
    /\ Len(ret.val) = 1
    /\ Len(localQuotes) = 2

\* The remote statements the call op(arg) sends when none of them throws.
statementsSent(op, arg) ==
    CASE op = "deleteCategory" ->
            IF \E c \in db.categories : c.id = arg[1] THEN 3 ELSE 1
      [] op = "updateQuote" -> 2
      [] op = "importData" -> Len(importStatements(JSONparse(arg[1])))
      [] OTHER -> 1

\* C11: with the remote backend active, a mutating call one of whose remote
\* statements throws ends in an error and leaves localStorage as it was.
C11_WriteErrorSurfaces ==
    [][(/\ sql /\ calls' = calls + 1
        /\ ret'.fail # 0
        /\ ret'.fail <= statementsSent(ret'.op, ret'.arg))
       => /\ ~ret'.ok
          /\ localStorage' = localStorage]_vars

\* C11 witness: the INSERT of addQuote threw; the caller got the error and
\* no quote was written to localStorage.
C11_Witness ==
    /\ sql /\ ret.op = "addQuote" /\ ret.fail = 1 /\ ~ret.ok
    /\ ~Has(localStorage, "quotes")
    /\ db.quotes = {}

\* C12: a mutating call that ends in an error leaves the stored quotes and
\* categories as they were before the call.
C12_FailedWriteChangesNothing ==
    [][(calls' = calls + 1 /\ ~ret'.ok)
       => /\ storedQuotes' = storedQuotes
          /\ storedCategories' = storedCategories]_vars

\* The partials that carry none of the fields set at creation.
EditPartials == {p \in UpdatePartials : (DOMAIN p) \cap {"id", "created_at"} = {}}

\* C13: updateQuote(id, partial) on a stored id stores and returns the
\* stored record with the fields of partial laid over it, and leaves the
\* other quotes as they were; through StorageService and through the HTTP
\* variant.
C13_UpdateMerges ==
    [][\A id \in QuoteIds, partial \in EditPartials :
          \A q \in storedQuotes :
             (Called("updateQuote", <<id, partial>>) /\ q.id = id)
             => /\ ret'.ok
                /\ ret'.val = Spread(q, partial)
                /\ storedQuotes' = (storedQuotes \ {q}) \cup {Spread(q, partial)}]_vars

\* C14: updateQuote with an id no stored quote has ends in the error
\* "Not found", returns no record and leaves the store as it was.
C14_UpdateUnknownIdFails ==
    [][(/\ calls' = calls + 1 /\ ret'.op = "updateQuote"
        /\ \A q \in storedQuotes : q.id # ret'.arg[1])
       => /\ ~ret'.ok
          /\ ret'.val = "Not found"
          /\ storedQuotes' = storedQuotes]_vars

\* C15: updateQuote, boostKnowledge and decayKnowledge leave every stored
\* quote under its id with its created_at.
C15_IdAndCreatedAtKept ==
    [][(/\ calls' = calls + 1
        /\ ret'.op \in {"updateQuote", "boostKnowledge", "decayKnowledge"})
       => \A q \in storedQuotes :
             \E r \in storedQuotes' : r.id = q.id /\ r.created_at = q.created_at]_vars

\* No two elements of the list have the same id.
idsDiffer(s) == \A i, j \in DOMAIN s : i # j => s[i].id # s[j].id

\* C16: no two stored quotes and no two stored categories have the same id.
C16_IdsUnique ==
    /\ idsDiffer(localQuotes)
    /\ idsDiffer(localCategories)
    /\ \A q, r \in db.quotes : q.id = r.id => q = r
    /\ \A c, k \in db.categories : c.id = k.id => c = k

\* C17: addCategory with the name of a stored category ends in an error
\* and adds nothing.
C17_DuplicateNameRefused ==
    [][(/\ calls' = calls + 1 /\ ret'.op = "addCategory"
        /\ \E c \in storedCategories : c.name = ret'.arg[1])
       => /\ ~ret'.ok
          /\ storedCategories' = storedCategories]_vars

\* C18: addCategory with the empty name ends in an error and leaves the
\* categories as they were.
C18_EmptyNameRefused ==
    [][Called("addCategory", <<"">>)
       => /\ ~ret'.ok
          /\ storedCategories' = storedCategories]_vars

\* C19: deleteQuote(id) returns and removes the quotes of that id and no
\* other (an id that is not stored: nothing); a second deleteQuote(id)
\* changes nothing more.
C19_DeleteQuoteRemovesIt ==
    [][(calls' = calls + 1 /\ ret'.op = "deleteQuote")
       => LET id == ret'.arg[1]
          IN  /\ ret'.ok
              /\ storedQuotes' = {q \in storedQuotes : q.id # id}
              /\ quoteCount' = quoteCount
                                  - (IF sql THEN Cardinality({q \in db.quotes : q.id = id})
                                     ELSE Len(SelectSeq(localQuotes, LAMBDA q : q.id = id)))
              /\ sql \/ deleteQuoteLocal(localStorage', id).ls = localStorage'
              /\ ~sql \/ deleteQuoteRemote(db', id, 0).db = db']_vars

\* C19 witness: deleteQuote removed one of two stored quotes.
C19_Witness ==
    /\ ret.op = "deleteQuote" /\ ret.ok
    /\ ret.arg[1] # NoSuchId
    /\ quoteCount = 1
    /\ \A q \in storedQuotes : q.id # ret.arg[1]

\* C20: addQuote(draft) that returns stores and returns the draft with an
\* id no stored quote had, confidence 0.7 and created_at =
\* last_accessed_at = the time of the call.
C20_AddQuoteStoresDraft ==
    [][\A draft \in Drafts :
          (Called("addQuote", <<draft>>) /\ ret'.ok)
          => /\ ret'.val = Spread(draft, [id |-> ret'.val.id,
                                          confidence |-> InitialConfidence,
                                          last_accessed_at |-> now,
                                          created_at |-> now])
             /\ \A q \in storedQuotes : q.id # ret'.val.id
             /\ storedQuotes' = storedQuotes \cup {ret'.val}
             /\ quoteCount' = quoteCount + 1]_vars

-----------------------------------------------------------------------------
(* Knowledge lifecycle *)

\* The number of boosts in a row of the claim about repeated boosts.
MaxBoosts == 20

\* The quotes held after 0, 1, ... n boosts of the quote `id` in a row.  A
\* boost that leaves the store as it was is followed by boosts that do the same.
RECURSIVE boostLocalTimes(_, _, _, _)
boostLocalTimes(ls, id, t, n) ==
    LET held == Range(getLocalQuotes(ls, "", <<>>))
        r == boostKnowledgeLocal(ls, id, t)
    IN  IF n = 0 \/ ~r.ok THEN <<held>>
        ELSE IF r.ls = ls THEN [k \in 1..(n + 1) |-> held]
        ELSE <<held>> \o boostLocalTimes(r.ls, id, t, n - 1)

RECURSIVE boostRemoteTimes(_, _, _, _)
boostRemoteTimes(d, id, t, n) ==
    LET r == boostKnowledgeRemote(d, id, t, 0)
    IN  IF n = 0 \/ ~r.ok THEN <<d.quotes>>
        ELSE IF r.db = d THEN [k \in 1..(n + 1) |-> d.quotes]
        ELSE <<d.quotes>> \o boostRemoteTimes(r.db, id, t, n - 1)

quotesAfterBoosts(id, n) ==
    IF sql THEN boostRemoteTimes(db, id, now, n) ELSE boostLocalTimes(localStorage, id, now, n)

\* C21: boostKnowledge(id) sets the confidence of the quote to
\* min(1.0, confidence + 0.1) and its last_accessed_at to the current time and
\* leaves every other quote alone; n boosts in a row give
\* min(1.0, confidence + 0.1 * n), never more than 1.0, and twenty boosts
\* from 0.7 give exactly 1.0.
C21_BoostClamps ==
    [][(calls' = calls + 1 /\ ret'.op = "boostKnowledge")
       => LET id == ret'.arg[1]
              boosted(q) == With(With(q, "confidence",
                                      Min(MaxConfidence, q.confidence + BoostStep)),
                                 "last_accessed_at", now)
          IN  /\ ret'.ok
              /\ storedQuotes' = {IF q.id = id THEN boosted(q) ELSE q : q \in storedQuotes}
              /\ \A q \in storedQuotes : q.id = id =>
                    \A after \in {quotesAfterBoosts(id, MaxBoosts)} :
                    \A n \in 1..MaxBoosts : \A r \in after[n + 1] :
                       r.id = id =>
                          /\ r.confidence = Min(MaxConfidence, q.confidence + n * BoostStep)
                          /\ r.confidence <= MaxConfidence
                          /\ (q.confidence = InitialConfidence /\ n = MaxBoosts)
                                => r.confidence = MaxConfidence]_vars

MaxSweeps == 12

\* The quotes held after 0, 1, ... n sweeps in a row at time t.  A sweep that
\* leaves the store as it was is followed by sweeps that do the same.
RECURSIVE decayLocalTimes(_, _, _)
decayLocalTimes(ls, t, n) ==
    LET held == Range(getLocalQuotes(ls, "", <<>>))
        r == decayKnowledgeLocal(ls, t)
    IN  IF n = 0 \/ ~r.ok THEN <<held>>
        ELSE IF r.ls = ls THEN [k \in 1..(n + 1) |-> held]
        ELSE <<held>> \o decayLocalTimes(r.ls, t, n - 1)

RECURSIVE decayRemoteTimes(_, _, _)
decayRemoteTimes(d, t, n) ==
    LET r == decayKnowledgeRemote(d, t, 0)
    IN  IF n = 0 \/ ~r.ok THEN <<d.quotes>>
        ELSE IF r.db = d THEN [k \in 1..(n + 1) |-> d.quotes]
        ELSE <<d.quotes>> \o decayRemoteTimes(r.db, t, n - 1)

quotesAfterSweeps(n) ==
    IF sql THEN decayRemoteTimes(db, now, n) ELSE decayLocalTimes(localStorage, now, n)

\* C23: decayKnowledge() never changes last_accessed_at, so sweeps accumulate: n
\* sweeps in a row with no boost between them leave a quote that was stale at
\* the first at max(0, confidence - 0.05 * n), as 0.5 goes to 0.45 and then to
\* 0.40, and leave every other quote as it was.
C23_SweepsAccumulate ==
    [][(calls' = calls + 1 /\ ret'.op = "decayKnowledge")
       => LET stale(q) == now - q.last_accessed_at > DecayDays * MsPerDay
              after(q, n) == IF stale(q)
                             THEN With(q, "confidence", Max(0, q.confidence - n * DecayStep))
                             ELSE q
          IN  /\ ret'.ok
              /\ {<<q.id, q.last_accessed_at>> : q \in storedQuotes'}
                    = {<<q.id, q.last_accessed_at>> : q \in storedQuotes}
              /\ storedQuotes' = {after(q, 1) : q \in storedQuotes}
              /\ \A held \in {quotesAfterSweeps(MaxSweeps)} :
                    \A n \in 1..MaxSweeps : held[n + 1] = {after(q, n) : q \in storedQuotes}]_vars

\* A second sweep has taken to 0.40 a quote that was at 0.5, last accessed
\* fourteen days before T0.
C23_Witness ==
    /\ ret.op = "decayKnowledge" /\ ret.ok /\ calls = 2
    /\ \E q \in storedQuotes :
          q.confidence = 50 - 2 * DecayStep /\ q.last_accessed_at = T0 - 2 * DecayDays * MsPerDay

-----------------------------------------------------------------------------
(* Export and import *)

\* C24: importData(exportData()) is a no-op: the quotes and the categories the
\* store holds after importing the snapshot it has just exported equal, field
\* by field, those it held before, a quote of confidence 0.0 included.
C24_ImportOfExportIsNoOp ==
    [][(calls' = calls + 1 /\ ret'.op = "importData"
            /\ ret.op = "exportData" /\ ret'.arg[1] = ret.val)
       => /\ ret'.ok
          /\ storedQuotes' = storedQuotes
          /\ storedCategories' = storedCategories]_vars

\* The snapshot an importData call was given, and whether it has both keys.
imported == JSONparse(ret.arg[1])

wellFormed(data) == Has(data, "quotes") /\ Has(data, "categories")

\* C25: importData does not delete what the snapshot does not mention: every
\* quote and every category stored before the import whose id does not occur
\* in the snapshot is stored, unchanged, after it.
C25_ImportKeepsAbsentRecords ==
    [][(calls' = calls + 1 /\ ret'.op = "importData" /\ wellFormed(imported'))
       => /\ \A q \in storedQuotes :
                q.id \notin {r.id : r \in Range(imported'.quotes)} => q \in storedQuotes'
          /\ \A c \in storedCategories :
                c.id \notin {r.id : r \in Range(imported'.categories)}
                    => c \in storedCategories']_vars

\* The record a snapshot's list supplies for an id: the last of that id.
supplied(list, id) ==
    list[CHOOSE i \in DOMAIN list :
            list[i].id = id /\ \A k \in DOMAIN list : k > i => list[k].id # id]

\* The stored record r carries every value the snapshot's record s supplies.
carries(r, s) == \A f \in DOMAIN s : Has(r, f) /\ r[f] = s[f]

\* C26: importData is an upsert keyed by id: after it, for every record of the
\* snapshot a stored record of that id exists whose fields equal the
\* snapshot's values, under the supplied id, and no id is stored twice.
C26_ImportUpsertsById ==
    [][(calls' = calls + 1 /\ ret'.op = "importData" /\ wellFormed(imported'))
       => /\ ret'.ok
          /\ \A s \in Range(imported'.quotes) :
                \E r \in storedQuotes' :
                   r.id = s.id /\ carries(r, supplied(imported'.quotes, s.id))
          /\ \A s \in Range(imported'.categories) :
                \E r \in storedCategories' :
                   r.id = s.id /\ carries(r, supplied(imported'.categories, s.id))
          /\ quoteCount' = Cardinality({r.id : r \in storedQuotes'})
          /\ categoryCount' = Cardinality({r.id : r \in storedCategories'})]_vars

\* C27: for every imported quote, on both backends, the stored confidence is
\* the supplied one, 0.0 included, or 0.7 where the snapshot's record has
\* none, and the stored last_accessed_at is the supplied one, or the record's
\* created_at where it has none.
C27_ImportDefaultsOptionalFields ==
    [][(calls' = calls + 1 /\ ret'.op = "importData" /\ wellFormed(imported'))
       => \A id \in {s.id : s \in Range(imported'.quotes)} :
             LET s == supplied(imported'.quotes, id)
             IN  \E r \in storedQuotes' :
                    /\ r.id = id
                    /\ Has(r, "confidence")
                    /\ r.confidence = IF Has(s, "confidence") THEN s.confidence
                                      ELSE InitialConfidence
                    /\ Has(r, "last_accessed_at")
                    /\ r.last_accessed_at = IF Has(s, "last_accessed_at")
                                            THEN s.last_accessed_at ELSE s.created_at]_vars

\* C28: importData of a snapshot without the quotes key or without the
\* categories key throws 'Invalid data format' before any write: both
\* backends are as they were.
C28_InvalidFormatWritesNothing ==
    [][(calls' = calls + 1 /\ ret'.op = "importData" /\ ~wellFormed(imported'))
       => /\ ~ret'.ok
          /\ ret'.val = "Invalid data format"
          /\ storedQuotes' = storedQuotes /\ storedCategories' = storedCategories
          /\ db' = db /\ localStorage' = localStorage]_vars

\* A store that holds quotes has just refused a snapshot without the quotes key.
C28_Witness ==
    /\ ret.op = "importData" /\ ~ret.ok /\ ret.val = "Invalid data format"
    /\ ~Has(imported, "quotes") /\ Has(imported, "categories")
    /\ storedQuotes # {}

\* How many times x occurs in the list.
timesIn(list, x) == Cardinality({i \in DOMAIN list : list[i] = x})

-----------------------------------------------------------------------------
(* Category deletion, statement by statement *)

\* C30: deleteCategory of a category that is not the sentinel moves the quotes
\* of that category to the sentinel before it removes the category, on both
\* backends: while the call is suspended between its two writes, after it was
\* cut short there and after it returned, no quote names a category that the
\* categories do not hold, and a call cut short leaves the category in place.
C30_ReassignsBeforeRemoving ==
    /\ \A q \in storedQuotes : \E c \in storedCategories : c.name = q.category
    /\ (Suspended \/ (ret.op = "deleteCategory" /\ ~ret.ok))
          => /\ \E c \in storedCategories : c.id = ret.arg[1]
             /\ \A q \in storedQuotes :
                   \A c \in storedCategories : c.id = ret.arg[1] => q.category # c.name
    /\ (ret.op = "deleteCategory" /\ ret.ok)
          => \A c \in storedCategories : c.id # ret.arg[1]

-----------------------------------------------------------------------------
(* Concurrent callers *)

\* Caller c's call `op` has just returned, the other caller making `with`.
returns(c, op, with) ==
    /\ ret.val[c].op = op /\ ret.val[c].pc = "await" /\ ret'.val[c].pc = "done"
    /\ \E o \in Callers \ {c} : ret.val[o].op = with

\* C31: two addQuote calls whose steps interleave at the awaits both persist:
\* each, when it returns, has added its quote to what the store held, so that
\* once both have returned the store holds both new quotes and every quote
\* it held before.
C31_ConcurrentAddsBothPersist ==
    [][\A c \in Callers :
          returns(c, "addQuote", "addQuote")
             => /\ ret'.val[c].ok
                /\ quoteCount' = quoteCount + 1
                /\ storedQuotes \subseteq storedQuotes'
                /\ ret'.val[c].val[1] \in storedQuotes'
                /\ \A o \in Callers :
                      ret'.val[o].pc = "done" => ret'.val[o].val[1] \in storedQuotes']_vars

\* The stored quote of the id.
quoteOf(id) == CHOOSE q \in storedQuotes : q.id = id

\* C32: on the remote backend updateQuote reads, merges and writes in separate
\* steps: when a second writer's update of the same quote commits between the
\* first writer's read and its write, the first writer's write stores what it
\* read with its own partial over it, so that the second writer's change is
\* lost, a field neither partial names keeps its value, and neither call
\* fails.
C32_ConcurrentUpdateLosesSilently ==
    [][\A c \in Callers : \A o \in Callers \ {c} :
          (/\ sql
           /\ returns(c, "updateQuote", "updateQuote")
           /\ ret.val[o].pc = "done"
           /\ ret.val[o].arg[1] = ret.val[c].arg[1]
           /\ ret.val[o].read = ret.val[c].read)
             => LET id == ret.val[c].arg[1]
                    original == ret.val[c].read[1]
                    mine == ret.val[c].arg[2]
                    theirs == ret.val[o].arg[2]
                IN  /\ ret'.val[c].ok /\ ret'.val[o].ok
                    /\ ret'.val[c].val = <<quoteOf(id)'>>
                    /\ \A f \in DOMAIN original :
                          quoteOf(id)'[f] = IF Has(mine, f) THEN mine[f] ELSE original[f]
                    /\ \A f \in DOMAIN theirs :
                          (~Has(mine, f) /\ theirs[f] # original[f])
                             => /\ quoteOf(id)[f] = theirs[f]
                                /\ quoteOf(id)'[f] # theirs[f]]_vars

\* Both updates of the quote of id 1 have returned; the quote is pinned, as
\* one asked, and is not in the category the other asked for.
C32_Witness ==
    /\ sql
    /\ \A c \in Callers : ret.val[c].op = "updateQuote" /\ ret.val[c].pc = "done" /\ ret.val[c].ok
    /\ \E c \in Callers : ret.val[c].arg[2] = [category |-> GOLDEN]
    /\ \E c \in Callers : ret.val[c].arg[2] = [is_pinned |-> TRUE]
    /\ quoteOf(1).is_pinned /\ quoteOf(1).category = UNCATEGORIZED

\* The quote of the id as caller c read it before its await.
readOf(c, id) == ret.val[c].read[findIndex(ret.val[c].read, id)]

\* C35: a boostKnowledge(id) that commits while an updateQuote(id, partial) is
\* between its read and its write, the partial naming neither confidence nor
\* last_accessed_at, is not undone: when the updateQuote has written, the
\* quote's confidence and last_accessed_at are those the boost wrote.
C35_UpdateKeepsConcurrentBoost ==
    [][\A c \in Callers : \A o \in Callers \ {c} :
          (/\ returns(c, "updateQuote", "boostKnowledge")
           /\ ret.val[o].pc = "done"
           /\ ret.val[o].arg[1] = ret.val[c].arg[1]
           /\ ~Has(ret.val[c].arg[2], "confidence")
           /\ ~Has(ret.val[c].arg[2], "last_accessed_at")
           /\ readOf(c, ret.val[c].arg[1]).last_accessed_at
                 # quoteOf(ret.val[c].arg[1]).last_accessed_at)
             => LET id == ret.val[c].arg[1]
                IN  /\ quoteOf(id)'.confidence = quoteOf(id).confidence
                    /\ quoteOf(id)'.last_accessed_at = quoteOf(id).last_accessed_at]_vars

-----------------------------------------------------------------------------
(* Search terms *)

\* C34: a search term that is empty once trimmed imposes no restriction:
\* what getQuotes(category, "  ") has returned is what getQuotes(category)
\* returns from the same store (a read leaves the quotes as they were), on
\* both backends.
C34_BlankSearchIsNoSearch ==
    (ret.op = "getQuotes" /\ ret.arg[2] = Blank)
        => IF sql /\ ret.fail = 0
           THEN ret.val \in selectQuotes(db, ret.arg[1], <<>>)
           ELSE ret.val = getLocalQuotes(localStorage, ret.arg[1], <<>>)

-----------------------------------------------------------------------------
(* Reading back *)

\* C36: read-your-writes.  Where nothing deletes and nothing imports, the
\* quotes of the active backend are those addQuote has returned; every one
\* of them is in what an unfiltered getQuotes() has returned, also when the
\* remote read failed and the fallback answered.
C36_ReadYourWrites ==
    (ret.op = "getQuotes" /\ ret.arg = <<"", <<>>>>)
        => storedQuotes \subseteq Range(ret.val)

\* The snapshot the last exportData returned.
exported == JSONparse(ret.val)

\* C37: the quotes and the categories of one exportData() come from the
\* same backend: the snapshot holds what the remote store holds, or what
\* the local store holds, never the quotes of one with the categories of
\* the other.
C37_ExportReadsOneBackend ==
    ret.op = "exportData"
        => \/ /\ sql
              /\ exported.quotes \in selectQuotes(db, "", <<>>)
              /\ exported.categories = selectCategories(db)
           \/ /\ exported.quotes = getLocalQuotes(localStorage, "", <<>>)
              /\ exported.categories = getLocalCategories(localStorage).val

\* C38: getQuotes and getCategories are pure reads: a call, the first one
\* on an empty local store and one that falls back after a remote error
\* included, leaves the local store and the remote tables as they were.
C38_ReadsArePure ==
    [][ret'.op \in {"getQuotes", "getCategories"} /\ calls' = calls
          => db' = db /\ localStorage' = localStorage]_vars

-----------------------------------------------------------------------------
(* What a boost leaves alone *)

\* C39: boostKnowledge(id) changes only confidence and last_accessed_at of
\* the quote with that id: its other fields, every other quote and all
\* categories are as they were, and so is the backend that is not active;
\* with an id that is not stored it changes nothing and throws nothing, on
\* both backends.
C39_BoostTouchesOnlyItsQuote ==
    [][\A id \in QuoteIds :
          Called("boostKnowledge", <<id>>)
             => /\ ret'.ok
                /\ storedCategories' = storedCategories
                /\ db'.categories = db.categories
                /\ Has(localStorage', "categories") = Has(localStorage, "categories")
                /\ IF sql THEN localStorage' = localStorage ELSE db' = db
                /\ quoteCount' = quoteCount
                /\ \A q \in storedQuotes : q.id # id => q \in storedQuotes'
                /\ \A r \in storedQuotes' : r.id # id => r \in storedQuotes
                /\ \A q \in storedQuotes :
                      q.id = id
                         => \E r \in storedQuotes' :
                               /\ r.id = id
                               /\ DOMAIN r = DOMAIN q
                               /\ \A f \in DOMAIN q \ {"confidence", "last_accessed_at"} :
                                     r[f] = q[f]
                /\ (\A q \in storedQuotes : q.id # id)
                      => storedQuotes' = storedQuotes /\ db' = db
                            /\ localStorage' = localStorage]_vars

\* A quote has been boosted beside another one, a tick after the start.
C39_Witness ==
    /\ ret.op = "boostKnowledge" /\ ret.ok /\ ret.arg = <<1>> /\ calls = 1
    /\ now = T0 + 1
    /\ quoteCount = 2
    /\ \E q \in storedQuotes :
          q.id = 1 /\ q.last_accessed_at = now /\ q.confidence = 50 + BoostStep
    /\ \E q \in storedQuotes :
          q.id = 2 /\ q.last_accessed_at < T0 /\ q.confidence = 50

-----------------------------------------------------------------------------
(* The backend flag *)

\* C33: the active backend is decided at construction: the flag is set
\* exactly when a database configuration is present and the client was
\* constructed, construction does not throw under any configuration, the
\* flag never changes afterwards, and while it is not set no call touches
\* the remote store.
C33_BackendDecidedAtConstruction ==
    [][/\ Fresh => /\ ret.ok
                   /\ sql <=> (ret.arg[1] \notin {Undefined, ""} /\ neon(ret.arg[1]).ok)
       /\ sql' = sql
       /\ ~sql => db' = db]_vars

====
